---------------------------- MODULE Spec2Model ----------------------------
(***************************************************************************)
(* Model of src/src/lighting.rs: the point-light record, the ambient       *)
(* state, calculate_light_contribution and the management operations       *)
(* (set_ambient, light_create, light_set_color, light_set_intensity,       *)
(* light_set_flicker, light_free).                                         *)
(*                                                                         *)
(* f32 values are modelled as binary floating-point numbers with PrecBits  *)
(* significant bits, rounded to nearest, ties to even, after every         *)
(* operation, with +Inf, -Inf and NaN.  The exponent range is not          *)
(* bounded and the sign of zero is not kept (-0.0 == 0.0 in Rust).         *)
(***************************************************************************)
EXTENDS Integers, Sequences, FiniteSets, TLC

\* Number of significant bits of the modelled f32 (24 in the program; 8 is
\* the least that holds every u8 exactly, as the `as f32` casts require).
PrecBits == 8
\* Number of identifiers the registry hands out.
MaxIds == 2
\* Longest `lights` slice passed to calculate_light_contribution.
MaxLights == 2

---------------------------------------------------------------------------
(* f32 arithmetic *)

\* The only element of a one-element set.  Operands are bound through
\* {e : v \in {operand}} so that each is evaluated once.
Val(S) == CHOOSE v \in S : TRUE

Abs(n) == IF n < 0 THEN -n ELSE n

Sgn(n) == IF n < 0 THEN -1 ELSE IF n > 0 THEN 1 ELSE 0

RECURSIVE BitLen(_)
BitLen(n) == IF n = 0 THEN 0 ELSE 1 + BitLen(n \div 2)

\* A finite value m * 2^e in canonical form: m odd, or <<0, 0, 0>> for zero.
RECURSIVE Norm(_, _)
Norm(m, e) ==
    IF m = 0 THEN <<0, 0, 0>>
    ELSE IF m % 2 = 0 THEN Norm(m \div 2, e + 1)
    ELSE <<0, m, e>>

NaN == <<2, 0, 0>>

PInf == <<1, 1, 0>>

NInf == <<1, -1, 0>>

IsNaN(a) == a[1] = 2

IsInf(a) == a[1] = 1

IsFin(a) == a[1] = 0

\* The value n * 2^e rounded to PrecBits significant bits, ties to even.
RoundBits(v, e, len) ==
    IF len <= PrecBits THEN Norm(v, e)
    ELSE LET sh == len - PrecBits
             q == Abs(v) \div (2 ^ sh)
             r == Abs(v) % (2 ^ sh)
             half == 2 ^ (sh - 1)
             up == r > half \/ (r = half /\ q % 2 = 1)
         IN  Norm(Sgn(v) * (IF up THEN q + 1 ELSE q), e + sh)

Round(n, e) == Val({RoundBits(v, e, BitLen(Abs(v))) : v \in {n}})

\* An integer (a u8, a literal such as 1.0 or 255.0) as f32.
FromInt(n) == Round(n, 0)

FNeg(x) == Val({IF IsNaN(a) THEN NaN ELSE <<a[1], -a[2], a[3]>> : a \in {x}})

\* Position of the leading bit of a finite non-zero value.
Top(a) == a[3] + BitLen(Abs(a[2]))

\* TRUE when the f32 sum a + b is the exact sum (no rounding took place).
AddIsExact(x, y) ==
    Val({ IF ~IsFin(a) \/ ~IsFin(b) THEN TRUE
          ELSE IF a[2] = 0 \/ b[2] = 0 THEN TRUE
          ELSE IF Top(a) - Top(b) >= PrecBits + 3 \/ Top(b) - Top(a) >= PrecBits + 3
               THEN FALSE
          ELSE LET e0 == IF a[3] < b[3] THEN a[3] ELSE b[3]
               IN  BitLen(Abs(Norm(a[2] * 2 ^ (a[3] - e0) + b[2] * 2 ^ (b[3] - e0), e0)[2]))
                       <= PrecBits
          : a \in {x}, b \in {y} })

FAdd(x, y) ==
    Val({ IF IsNaN(a) \/ IsNaN(b) THEN NaN
          ELSE IF IsInf(a) THEN (IF IsInf(b) /\ a[2] # b[2] THEN NaN ELSE a)
          ELSE IF IsInf(b) THEN b
          ELSE IF a[2] = 0 THEN b
          ELSE IF b[2] = 0 THEN a
          ELSE IF Top(a) - Top(b) >= PrecBits + 3 THEN a
          ELSE IF Top(b) - Top(a) >= PrecBits + 3 THEN b
          ELSE LET e0 == IF a[3] < b[3] THEN a[3] ELSE b[3]
               IN  Round(a[2] * 2 ^ (a[3] - e0) + b[2] * 2 ^ (b[3] - e0), e0)
          : a \in {x}, b \in {y} })

FSub(a, b) == FAdd(a, FNeg(b))

FMul(x, y) ==
    Val({ IF IsNaN(a) \/ IsNaN(b) THEN NaN
          ELSE IF IsInf(a) \/ IsInf(b)
               THEN (IF a[2] = 0 \/ b[2] = 0 THEN NaN
                     ELSE <<1, Sgn(a[2]) * Sgn(b[2]), 0>>)
          ELSE Round(a[2] * b[2], a[3] + b[3])
          : a \in {x}, b \in {y} })

\* The quotient of two finite non-zero values.
DivFinite(a, b, la) ==
    LET num == Abs(a[2]) * 2 ^ (PrecBits - la) * 2 ^ (PrecBits + 3)
        q == num \div Abs(b[2])
        st == IF num % Abs(b[2]) = 0 THEN 0 ELSE 1
    IN  Round(Sgn(a[2]) * Sgn(b[2]) * (4 * q + st),
              a[3] - b[3] - (PrecBits - la) - (PrecBits + 3) - 2)

FDiv(x, y) ==
    Val({ IF IsNaN(a) \/ IsNaN(b) THEN NaN
          ELSE IF IsInf(a) THEN (IF IsInf(b) THEN NaN
                                 ELSE <<1, a[2] * (IF b[2] < 0 THEN -1 ELSE 1), 0>>)
          ELSE IF IsInf(b) THEN <<0, 0, 0>>
          ELSE IF b[2] = 0 THEN (IF a[2] = 0 THEN NaN ELSE <<1, Sgn(a[2]), 0>>)
          ELSE IF a[2] = 0 THEN <<0, 0, 0>>
          ELSE Val({DivFinite(a, b, la) : la \in {BitLen(Abs(a[2]))}})
          : a \in {x}, b \in {y} })

RECURSIVE Isqrt(_)
Isqrt(n) ==
    IF n < 2 THEN n
    ELSE Val({IF (s + 1) * (s + 1) <= n THEN s + 1 ELSE s : s \in {2 * Isqrt(n \div 4)}})

\* The square root of the finite positive value a, s0 = 2 * PrecBits + 4 - BitLen.
SqrtFinite(a, s0) ==
    LET s == IF (a[3] - s0) % 2 = 0 THEN s0 ELSE s0 + 1
    IN  Val({Round(4 * r + (IF r * r = a[2] * 2 ^ s THEN 0 ELSE 1), ((a[3] - s) \div 2) - 2)
             : r \in {Isqrt(a[2] * 2 ^ s)}})

FSqrt(x) ==
    Val({ IF IsNaN(a) THEN NaN
          ELSE IF IsInf(a) THEN (IF a[2] > 0 THEN PInf ELSE NaN)
          ELSE IF a[2] < 0 THEN NaN
          ELSE IF a[2] = 0 THEN <<0, 0, 0>>
          ELSE Val({SqrtFinite(a, s0) : s0 \in {2 * PrecBits + 4 - BitLen(a[2])}})
          : a \in {x} })

\* a < b, FALSE when either is NaN.
FLt(x, y) ==
    Val({ IF IsNaN(a) \/ IsNaN(b) THEN FALSE
          ELSE IF a = b THEN FALSE
          ELSE IF IsInf(a) THEN a[2] < 0
          ELSE IF IsInf(b) THEN b[2] > 0
          ELSE FSub(a, b)[2] < 0
          : a \in {x}, b \in {y} })

FGt(a, b) == FLt(b, a)

FLe(x, y) == Val({~IsNaN(a) /\ ~IsNaN(b) /\ ~FLt(b, a) : a \in {x}, b \in {y}})

\* f32::min: the other operand when one is NaN.
FMin(x, y) ==
    Val({ IF IsNaN(a) THEN b
          ELSE IF IsNaN(b) THEN a
          ELSE IF FLt(a, b) THEN a ELSE b
          : a \in {x}, b \in {y} })

RECURSIVE Pow2Mod(_, _)
Pow2Mod(k, t) == IF k = 0 THEN 1 % t ELSE Val({(2 * p) % t : p \in {Pow2Mod(k - 1, t)}})

\* The sine of x / 1024 for x in the first quadrant, in units of 1/1024,
\* from the Taylor series.
SinPoly(x) ==
    LET one == 1024
        x2 == (x * x) \div one
        x3 == (x2 * x) \div one
        x5 == (x3 * x2) \div one
        x7 == (x5 * x2) \div one
    IN  Val({IF y0 > one THEN one ELSE IF y0 < 0 THEN 0 ELSE y0
             : y0 \in {x - (x3 \div 6) + (x5 \div 120) - (x7 \div 5040)}})

\* The sine of x0 / 1024 for 0 <= x0 < 6434 (2 pi), in units of 1/1024.
SinFixed(x0) ==
    LET pi == 3217
    IN  Val({(IF x0 >= pi THEN -1 ELSE 1)
                * Val({SinPoly(x) : x \in {IF 2 * x1 > pi THEN pi - x1 ELSE x1}})
             : x1 \in {IF x0 >= pi THEN x0 - pi ELSE x0}})

\* f32::sin, computed in fixed point after reduction to the first
\* quadrant, then rounded; NaN for an infinite or NaN argument.
FSin(x) ==
    Val({ IF ~IsFin(a) THEN NaN
          ELSE LET twoPi == 6434
                   k == a[3] + 10
               IN  Val({Round(Sgn(a[2]) * SinFixed(x0), -10)
                        : x0 \in {IF k >= 0
                                  THEN ((Abs(a[2]) % twoPi) * Pow2Mod(k, twoPi)) % twoPi
                                  ELSE (Abs(a[2]) \div (2 ^ (-k))) % twoPi}})
          : a \in {x} })

---------------------------------------------------------------------------
(* Light, LightingState and calculate_light_contribution *)

Zero == FromInt(0)

One == FromInt(1)

Half == Round(1, -1)

Ten == FromInt(10)

\* `c as f32 / 255.0` for a u8 channel c.
Channel(c) == FDiv(FromInt(c), FromInt(255))

\* Light::new with the flicker defaults exchanged.
Light_new_swapped(radius, color) ==
    [radius |-> radius, color |-> color, intensity |-> One,
     flicker_amount |-> One, flicker_speed |-> Zero]

Light_new(radius, color) ==
    [radius |-> radius, color |-> color, intensity |-> One,
     flicker_amount |-> Zero, flicker_speed |-> One]

LightingState_default == <<One, One, One, One>>

\* dx * dx + dy * dy
DistSq(x, y, lx, ly) ==
    Val({FAdd(FMul(dx, dx), FMul(dy, dy)) : dx \in {FSub(x, lx)}, dy \in {FSub(y, ly)}})

\* The influence test with `<=` for `<`.
InInfluence_closed(dist_sq, radius) == FLe(dist_sq, FMul(radius, radius))

\* The influence test: dist_sq < radius * radius
InInfluence(dist_sq, radius) == FLt(dist_sq, FMul(radius, radius))

\* (1.0 - (dist / radius).min(1.0)) squared
Attenuation(dist_sq, radius) ==
    Val({FMul(t, t) : t \in {FSub(One, FMin(FDiv(FSqrt(dist_sq), radius), One))}})

\* The flicker block without its `flicker_amount > 0.0` guard.
EffectiveIntensity_unguarded(light, time) ==
    LET flicker_phase == FMul(FMul(time, light.flicker_speed), Ten)
        flicker == FMul(FAdd(FMul(FSin(flicker_phase), Half), Half),
                        light.flicker_amount)
    IN  FMul(light.intensity, FSub(One, flicker))

\* The intensity after the flicker block.
EffectiveIntensity(light, time) ==
    IF FGt(light.flicker_amount, Zero)
    THEN LET flicker_phase == FMul(FMul(time, light.flicker_speed), Ten)
             flicker == FMul(FAdd(FMul(FSin(flicker_phase), Half), Half),
                             light.flicker_amount)
         IN  FMul(light.intensity, FSub(One, flicker))
    ELSE light.intensity

\* What one light adds to the three totals when the influence test passes.
Contribution(dist_sq, light, time) ==
    Val({ <<FMul(FMul(Channel(light.color[1]), attenuation), intensity),
            FMul(FMul(Channel(light.color[2]), attenuation), intensity),
            FMul(FMul(Channel(light.color[3]), attenuation), intensity)>>
          : attenuation \in {Attenuation(dist_sq, light.radius)},
            intensity \in {EffectiveIntensity(light, time)} })

\* The loop body clamping the totals after every light.
AddLight_clamped(total, x, y, t, time) ==
    Val({ IF InInfluence(dist_sq, t[3].radius)
          THEN Val({<<FMin(FAdd(tot[1], c[1]), One), FMin(FAdd(tot[2], c[2]), One),
                      FMin(FAdd(tot[3], c[3]), One)>>
                    : c \in {Contribution(dist_sq, t[3], time)}})
          ELSE tot
          : tot \in {total}, dist_sq \in {DistSq(x, y, t[1], t[2])} })

\* The loop body with `-=` for `+=`.
AddLight_subtract(total, x, y, t, time) ==
    Val({ IF InInfluence(dist_sq, t[3].radius)
          THEN Val({<<FSub(tot[1], c[1]), FSub(tot[2], c[2]), FSub(tot[3], c[3])>>
                    : c \in {Contribution(dist_sq, t[3], time)}})
          ELSE tot
          : tot \in {total}, dist_sq \in {DistSq(x, y, t[1], t[2])} })

\* One iteration of the loop: total is <<total_r, total_g, total_b>>, t is
\* one (lx, ly, light) tuple.
AddLight(total, x, y, t, time) ==
    Val({ IF InInfluence(dist_sq, t[3].radius)
          THEN Val({<<FAdd(tot[1], c[1]), FAdd(tot[2], c[2]), FAdd(tot[3], c[3])>>
                    : c \in {Contribution(dist_sq, t[3], time)}})
          ELSE tot
          : tot \in {total}, dist_sq \in {DistSq(x, y, t[1], t[2])} })

\* The loop over the slice, first element first.
RECURSIVE Accumulate(_, _, _, _, _)
Accumulate(total, x, y, ls, time) ==
    IF ls = <<>> THEN total
    ELSE Val({Accumulate(tot, x, y, Tail(ls), time)
              : tot \in {AddLight(total, x, y, Head(ls), time)}})

\* The function without the final `.min(1.0)`.
calculate_light_contribution_unclamped(x, y, ls, amb, time) ==
    Val({<<total[1], total[2], total[3], One>>
         : total \in {Accumulate(<<amb[1], amb[2], amb[3]>>, x, y, ls, time)}})

calculate_light_contribution(x, y, ls, amb, time) ==
    Val({<<FMin(total[1], One), FMin(total[2], One), FMin(total[3], One), One>>
         : total \in {Accumulate(<<amb[1], amb[2], amb[3]>>, x, y, ls, time)}})

---------------------------------------------------------------------------
(* State *)

VARIABLES
    lights,     \* engine.lights: the registry, a set of [id, light] entries
    ambient,    \* engine.lighting.ambient
    last,       \* the most recent management call: its arguments and return
    hist,       \* history of each id: 0 never freed, 1 freed and not handed out
                \* since, 2 handed out again after a free
    arg_x, arg_y, arg_lights, arg_ambient, arg_time,
                \* the arguments of a calculate_light_contribution call
    result,     \* its return value
    pc          \* "idle", "call" (arguments chosen) or "done" (returned)

engine == <<lights, ambient, last, hist>>

call == <<arg_x, arg_y, arg_lights, arg_ambient, arg_time, result, pc>>

vars == <<lights, ambient, last, hist, arg_x, arg_y, arg_lights, arg_ambient,
          arg_time, result, pc>>

---------------------------------------------------------------------------
(* The registry engine.lights (crate::engine), from its contract:          *)
(* insert(Light) -> LightId allocates an id that is not live, get_mut      *)
(* and remove answer None for an id that is not live.                      *)

\* Identifiers insert can hand out.
Ids == 0 .. MaxIds - 1

\* Identifiers a caller can pass: the above and one that is never allocated.
AnyId == 0 .. MaxIds

Live(reg) == {e.id : e \in reg}

registry_get(reg, id) == {e \in reg : e.id = id}

registry_insert(reg, id, light) == reg \cup {[id |-> id, light |-> light]}

registry_remove(reg, id) == {e \in reg : e.id # id}

\* get_mut(id) followed by a write of one field of the light at id.
registry_update(reg, id, field, value) ==
    {IF e.id = id THEN [id |-> id, light |-> [e.light EXCEPT ![field] = value]]
     ELSE e : e \in reg}

---------------------------------------------------------------------------
(* Management operations *)

Unit == -1

Ok(v) == [tag |-> "Ok", val |-> v]

\* PyValueError("Invalid light ID: {id}")
InvalidHandle(id) == [tag |-> "InvalidHandle", val |-> id]

NoColor == <<0, 0, 0, 0>>

Call(op, id, color, f1, f2, ret) ==
    [op |-> op, id |-> id, color |-> color, f1 |-> f1, f2 |-> f2, ret |-> ret]

MutateOps == {"light_set_color", "light_set_intensity", "light_set_flicker", "light_free"}

set_ambient(r, g, b, a) ==
    /\ ambient' = <<Channel(r), Channel(g), Channel(b), Channel(a)>>
    /\ last' = Call("set_ambient", Unit, <<r, g, b, a>>, Zero, Zero, Ok(Unit))
    /\ UNCHANGED <<lights, hist>>

\* id is the identifier engine.lights.insert allocates.
light_create(radius, r, g, b, a, id) ==
    /\ id \notin Live(lights)
    /\ lights' = registry_insert(lights, id, Light_new(radius, <<r, g, b, a>>))
    /\ last' = Call("light_create", id, <<r, g, b, a>>, radius, Zero, Ok(id))
    /\ hist' = [hist EXCEPT ![id] = IF hist[id] = 0 THEN 0 ELSE 2]
    /\ UNCHANGED ambient

\* light_set_color answering Ok(()) for an id that is not live.
light_set_color_silent(light, r, g, b, a) ==
    /\ lights' = registry_update(lights, light, "color", <<r, g, b, a>>)
    /\ last' = Call("light_set_color", light, <<r, g, b, a>>, Zero, Zero, Ok(Unit))
    /\ UNCHANGED <<ambient, hist>>

light_set_color(light, r, g, b, a) ==
    /\ IF registry_get(lights, light) # {}
       THEN /\ lights' = registry_update(lights, light, "color", <<r, g, b, a>>)
            /\ last' = Call("light_set_color", light, <<r, g, b, a>>, Zero, Zero, Ok(Unit))
       ELSE /\ lights' = lights
            /\ last' = Call("light_set_color", light, <<r, g, b, a>>, Zero, Zero,
                            InvalidHandle(light))
    /\ UNCHANGED <<ambient, hist>>

light_set_intensity(light, intensity) ==
    /\ IF registry_get(lights, light) # {}
       THEN /\ lights' = registry_update(lights, light, "intensity", intensity)
            /\ last' = Call("light_set_intensity", light, NoColor, intensity, Zero, Ok(Unit))
       ELSE /\ lights' = lights
            /\ last' = Call("light_set_intensity", light, NoColor, intensity, Zero,
                            InvalidHandle(light))
    /\ UNCHANGED <<ambient, hist>>

\* light_set_flicker writing flicker_amount only.
light_set_flicker_amount_only(light, amount, speed) ==
    /\ IF registry_get(lights, light) # {}
       THEN /\ lights' = registry_update(lights, light, "flicker_amount", amount)
            /\ last' = Call("light_set_flicker", light, NoColor, amount, speed, Ok(Unit))
       ELSE /\ lights' = lights
            /\ last' = Call("light_set_flicker", light, NoColor, amount, speed,
                            InvalidHandle(light))
    /\ UNCHANGED <<ambient, hist>>

light_set_flicker(light, amount, speed) ==
    /\ IF registry_get(lights, light) # {}
       THEN /\ lights' = registry_update(registry_update(lights, light, "flicker_amount", amount),
                                             light, "flicker_speed", speed)
            /\ last' = Call("light_set_flicker", light, NoColor, amount, speed, Ok(Unit))
       ELSE /\ lights' = lights
            /\ last' = Call("light_set_flicker", light, NoColor, amount, speed,
                            InvalidHandle(light))
    /\ UNCHANGED <<ambient, hist>>

\* light_free looking the light up without removing it.
light_free_lookup_only(light) ==
    /\ IF registry_get(lights, light) # {}
       THEN /\ last' = Call("light_free", light, NoColor, Zero, Zero, Ok(Unit))
            /\ hist' = [hist EXCEPT ![light] = 1]
       ELSE /\ last' = Call("light_free", light, NoColor, Zero, Zero, InvalidHandle(light))
            /\ hist' = hist
    /\ UNCHANGED <<lights, ambient>>

light_free(light) ==
    /\ IF registry_get(lights, light) # {}
       THEN /\ lights' = registry_remove(lights, light)
            /\ last' = Call("light_free", light, NoColor, Zero, Zero, Ok(Unit))
            /\ hist' = [hist EXCEPT ![light] = 1]
       ELSE /\ lights' = lights
            /\ last' = Call("light_free", light, NoColor, Zero, Zero, InvalidHandle(light))
            /\ hist' = hist
    /\ UNCHANGED ambient

---------------------------------------------------------------------------
(* Inputs of the management operations *)

CreateColorsIn == {<<255, 0, 0, 255>>}

SetColorsIn == {<<0, 128, 255, 7>>}

RadiiIn == {FromInt(5)}

IntensitiesIn == {Round(-3, -1)}

FlickersIn == {<<Half, FromInt(2)>>}

AmbientsIn == {<<255, 128, 0, 51>>}

---------------------------------------------------------------------------
(* The engine: management operations in any order *)

NoCall == Call("none", Unit, NoColor, Zero, Zero, Ok(Unit))

IdleCall ==
    /\ arg_x = Zero /\ arg_y = Zero /\ arg_lights = <<>>
    /\ arg_ambient = LightingState_default /\ arg_time = Zero
    /\ result = LightingState_default /\ pc = "idle"

Init ==
    /\ lights = {}
    /\ ambient = LightingState_default
    /\ last = NoCall
    /\ hist = [i \in AnyId |-> 0]
    /\ IdleCall

SetAmbient ==
    /\ \E c \in AmbientsIn : set_ambient(c[1], c[2], c[3], c[4])
    /\ UNCHANGED call

LightCreate ==
    /\ \E radius \in RadiiIn, c \in CreateColorsIn, id \in Ids :
           light_create(radius, c[1], c[2], c[3], c[4], id)
    /\ UNCHANGED call

LightSetColor ==
    /\ \E id \in AnyId, c \in SetColorsIn : light_set_color(id, c[1], c[2], c[3], c[4])
    /\ UNCHANGED call

LightSetIntensity ==
    /\ \E id \in AnyId, i \in IntensitiesIn : light_set_intensity(id, i)
    /\ UNCHANGED call

LightSetFlicker ==
    /\ \E id \in AnyId, f \in FlickersIn : light_set_flicker(id, f[1], f[2])
    /\ UNCHANGED call

LightFree ==
    /\ \E id \in AnyId : light_free(id)
    /\ UNCHANGED call

Next ==
    \/ SetAmbient
    \/ LightCreate
    \/ LightSetColor
    \/ LightSetIntensity
    \/ LightSetFlicker
    \/ LightFree

Spec == Init /\ [][Next]_vars

---------------------------------------------------------------------------
(* Properties of the management operations *)

\* The entry of the registry reg at id with its light replaced by l.
WithLight(reg, id, l) == {IF e.id = id THEN [id |-> id, light |-> l] ELSE e : e \in reg}

\* The light of the only entry of reg at id.
LightAt(reg, id) == (CHOOSE e \in reg : e.id = id).light

\* C1: a light_set_color, light_set_intensity, light_set_flicker or
\* light_free call on an id that is not live returns InvalidHandle carrying
\* that id and leaves the live ids, every light and the ambient unchanged.
C1_InvalidHandleNoEffect ==
    [][(last'.op \in MutateOps /\ last'.id \notin Live(lights))
          => /\ last'.ret = [tag |-> "InvalidHandle", val |-> last'.id]
             /\ lights' = lights
             /\ ambient' = ambient]_vars

\* A mutate call failed on a freed id and another on a never-allocated id
\* is possible: here the freed one, with a light still live.
C1_Witness ==
    /\ last.op \in MutateOps
    /\ last.ret.tag = "InvalidHandle"
    /\ hist[last.id] = 1
    /\ lights # {}

\* C2: after a successful light_free(id), every mutate or free on id
\* returns InvalidHandle until light_create returns id again; then the id
\* names the new light, which has the create defaults, and every mutate or
\* free on it succeeds and acts on that light.
C2_FreeInvalidatesUntilReuse ==
    [][/\ (last'.op \in MutateOps /\ hist[last'.id] = 1)
            => (last'.ret = [tag |-> "InvalidHandle", val |-> last'.id]
                /\ hist'[last'.id] = 1)
       /\ (last'.op = "light_free" /\ last'.ret.tag = "Ok")
            => (hist'[last'.id] = 1 /\ last'.id \notin Live(lights'))
       /\ (last'.op = "light_create" /\ hist[last'.id] = 1)
            => /\ hist'[last'.id] = 2
               /\ registry_get(lights', last'.id) =
                     {[id |-> last'.id,
                       light |-> [radius |-> last'.f1, color |-> last'.color,
                                  intensity |-> FromInt(1),
                                  flicker_amount |-> FromInt(0),
                                  flicker_speed |-> FromInt(1)]]}
       /\ (last'.op \in MutateOps /\ hist[last'.id] = 2)
            => /\ last'.ret = [tag |-> "Ok", val |-> Unit]
               /\ last'.op = "light_set_intensity"
                    => lights' = WithLight(lights, last'.id,
                           [LightAt(lights, last'.id) EXCEPT !.intensity = last'.f1])
               /\ last'.op = "light_free" => last'.id \notin Live(lights')]_vars

\* A mutate succeeded on an id that was freed and handed out again.
C2_Witness ==
    /\ last.op = "light_set_intensity"
    /\ last.ret.tag = "Ok"
    /\ hist[last.id] = 2

\* C8: light_create succeeds, adds exactly one light with the given radius
\* and colour and intensity 1.0, flicker_amount 0.0, flicker_speed 1.0 under
\* an id that was not live, keeps every other light and the ambient; no two
\* live lights ever share an id.
C8_CreateAddsOneFreshDefaultLight ==
    [][/\ \A e1, e2 \in lights' : e1.id = e2.id => e1 = e2
       /\ last'.op = "light_create"
            => /\ last'.ret.tag = "Ok"
               /\ last'.ret.val \notin Live(lights)
               /\ lights' = lights \cup
                     {[id |-> last'.ret.val,
                       light |-> [radius |-> last'.f1, color |-> last'.color,
                                  intensity |-> <<0, 1, 0>>,
                                  flicker_amount |-> <<0, 0, 0>>,
                                  flicker_speed |-> <<0, 1, 0>>]]}
               /\ Cardinality(lights') = Cardinality(lights) + 1
               /\ ambient' = ambient]_vars

\* A light was created while another, already modified, light was live.
C8_Witness ==
    /\ last.op = "light_create"
    /\ Cardinality(lights) = 2
    /\ \E e \in lights : e.id # last.id /\ e.light.intensity # One

\* C9: each successful operation changes only what it names.
C9_FrameOfEachOperation ==
    [][/\ (last'.op = "light_set_color" /\ last'.ret.tag = "Ok")
            => /\ lights' = WithLight(lights, last'.id,
                      [radius |-> LightAt(lights, last'.id).radius,
                       color |-> last'.color,
                       intensity |-> LightAt(lights, last'.id).intensity,
                       flicker_amount |-> LightAt(lights, last'.id).flicker_amount,
                       flicker_speed |-> LightAt(lights, last'.id).flicker_speed])
               /\ ambient' = ambient
       /\ (last'.op = "light_set_intensity" /\ last'.ret.tag = "Ok")
            => /\ lights' = WithLight(lights, last'.id,
                      [radius |-> LightAt(lights, last'.id).radius,
                       color |-> LightAt(lights, last'.id).color,
                       intensity |-> last'.f1,
                       flicker_amount |-> LightAt(lights, last'.id).flicker_amount,
                       flicker_speed |-> LightAt(lights, last'.id).flicker_speed])
               /\ ambient' = ambient
       /\ (last'.op = "light_set_flicker" /\ last'.ret.tag = "Ok")
            => /\ lights' = WithLight(lights, last'.id,
                      [radius |-> LightAt(lights, last'.id).radius,
                       color |-> LightAt(lights, last'.id).color,
                       intensity |-> LightAt(lights, last'.id).intensity,
                       flicker_amount |-> last'.f1,
                       flicker_speed |-> last'.f2])
               /\ ambient' = ambient
       /\ (last'.op = "light_free" /\ last'.ret.tag = "Ok")
            => /\ lights' = {e \in lights : e.id # last'.id}
               /\ Live(lights') = Live(lights) \ {last'.id}
               /\ ambient' = ambient
       /\ last'.op = "set_ambient"
            => /\ ambient' = <<FDiv(FromInt(last'.color[1]), FromInt(255)),
                               FDiv(FromInt(last'.color[2]), FromInt(255)),
                               FDiv(FromInt(last'.color[3]), FromInt(255)),
                               FDiv(FromInt(last'.color[4]), FromInt(255))>>
               /\ lights' = lights]_vars

\* light_set_flicker succeeded on one of two live lights, both modified.
C9_Witness ==
    /\ last.op = "light_set_flicker"
    /\ last.ret.tag = "Ok"
    /\ Cardinality(lights) = 2
    /\ \A e \in lights : e.light.color = <<0, 128, 255, 7>>

---------------------------------------------------------------------------
(* calculate_light_contribution applied to arguments from bounded sets *)

Mk(lx, ly, radius, color, intensity, amount, speed) ==
    <<FromInt(lx), FromInt(ly),
      [radius |-> radius, color |-> color, intensity |-> intensity,
       flicker_amount |-> amount, flicker_speed |-> speed]>>

\* Half an ulp of 1.0: 1.0 + Tiny rounds back to 1.0.
Tiny == Round(1, -PrecBits)

LightsIn ==
    { Mk(0, 0, FromInt(5), <<255, 0, 0, 255>>, One, Zero, One),
      Mk(0, 0, FromInt(-5), <<0, 255, 0, 9>>, One, Zero, One),
      Mk(0, 0, Zero, <<255, 255, 255, 255>>, FromInt(2), Zero, One),
      Mk(0, 0, FromInt(5), <<255, 255, 255, 255>>, FNeg(Tiny), FromInt(-1), FromInt(2)),
      Mk(3, 4, FromInt(8), <<0, 128, 255, 7>>, One, Half, FromInt(2)),
      Mk(1, 0, FromInt(3), <<255, 255, 0, 0>>, FromInt(300), FromInt(2), One),
      Mk(0, 0, FromInt(5), <<255, 128, 0, 255>>, Round(-3, -1), Zero, One),
      Mk(3, 4, FromInt(5), <<255, 0, 255, 255>>, PInf, One, One) }

PointsIn == {<<FromInt(0), FromInt(0)>>, <<FromInt(3), FromInt(4)>>, <<FromInt(1), FromInt(0)>>}

CalcAmbientsIn ==
    { <<One, One, One, One>>,
      <<Zero, Half, Round(1, -2), One>>,
      <<FromInt(2), Half, Zero, Half>>,
      <<FNeg(Half), NaN, One, Zero>> }

TimesIn == {Round(1, -2), FromInt(3)}

SlicesIn == UNION {[1 .. n -> LightsIn] : n \in 0 .. MaxLights}

IdleEngine ==
    /\ lights = {}
    /\ ambient = LightingState_default
    /\ last = NoCall
    /\ hist = [i \in AnyId |-> 0]

InitCalc ==
    /\ IdleEngine
    /\ \E p \in PointsIn : arg_x = p[1] /\ arg_y = p[2]
    /\ arg_lights \in SlicesIn
    /\ arg_ambient \in CalcAmbientsIn
    /\ arg_time \in TimesIn
    /\ result = LightingState_default
    /\ pc = "call"

Calculate ==
    /\ pc = "call"
    /\ result' = calculate_light_contribution(arg_x, arg_y, arg_lights, arg_ambient, arg_time)
    /\ pc' = "done"
    /\ UNCHANGED <<engine, arg_x, arg_y, arg_lights, arg_ambient, arg_time>>

NextCalc == Calculate

SpecCalc == InitCalc /\ [][NextCalc]_vars

---------------------------------------------------------------------------
(* Properties of calculate_light_contribution *)

Calc(ls) == calculate_light_contribution(arg_x, arg_y, ls, arg_ambient, arg_time)

RemoveAt(ls, i) == SubSeq(ls, 1, i - 1) \o SubSeq(ls, i + 1, Len(ls))

Perms(ls) ==
    {[i \in 1 .. Len(ls) |-> ls[f[i]]] :
        f \in {g \in [1 .. Len(ls) -> 1 .. Len(ls)] :
                  \A i, j \in 1 .. Len(ls) : g[i] = g[j] => i = j}}

Reaches(i) ==
    InInfluence(DistSq(arg_x, arg_y, arg_lights[i][1], arg_lights[i][2]),
                arg_lights[i][3].radius)

\* C3: a light with radius <= 0 adds nothing: the output equals the output
\* computed without that light.
C3_NonPositiveRadiusAddsNothing ==
    pc = "done" =>
        \A i \in 1 .. Len(arg_lights) :
            FLe(arg_lights[i][3].radius, Zero)
                => result = Calc(RemoveAt(arg_lights, i))

\* C4: each of r, g, b returned is <= 1.0 and the alpha returned is 1.0.
C4_ChannelsAtMostOneAlphaOne ==
    pc = "done" =>
        /\ \A k \in 1 .. 3 : FLe(result[k], <<0, 1, 0>>)
        /\ result[4] = <<0, 1, 0>>

\* Two lights in reach, one of intensity 300 and one of infinite intensity,
\* over an ambient with a channel above 1.0 and an alpha that is not 1.0.
C4_Witness ==
    /\ pc = "done"
    /\ Len(arg_lights) >= 2
    /\ FGt(arg_ambient[1], One)
    /\ arg_ambient[4] # One
    /\ \E i \in 1 .. Len(arg_lights) :
          arg_lights[i][3].intensity = FromInt(300) /\ Reaches(i)
    /\ \E i \in 1 .. Len(arg_lights) :
          arg_lights[i][3].intensity = PInf /\ Reaches(i)
    /\ \E i \in 1 .. Len(arg_lights) : arg_lights[i][3].color[4] # 255

RECURSIVE ExactSums(_, _)
ExactSums(total, ls) ==
    IF ls = <<>> THEN TRUE
    ELSE LET t == Head(ls)
             dist_sq == DistSq(arg_x, arg_y, t[1], t[2])
             c == Contribution(dist_sq, t[3], arg_time)
         IN  /\ InInfluence(dist_sq, t[3].radius)
                   => \A k \in 1 .. 3 : AddIsExact(total[k], c[k])
             /\ ExactSums(AddLight(total, arg_x, arg_y, t, arg_time), Tail(ls))

Exact(ls) == ExactSums(<<arg_ambient[1], arg_ambient[2], arg_ambient[3]>>, ls)

\* C6 as claimed: every permutation of the lights returns the same four
\* channels.
C6_OrderIrrelevant ==
    pc = "done" => \A q \in Perms(arg_lights) : Calc(q) = result

\* C6 as amended: every permutation of the lights in which, as in the given
\* order, no addition of the accumulation rounds returns the same four
\* channels.
C6_OrderIrrelevantWhenExact ==
    pc = "done" =>
        (Exact(arg_lights)
            => \A q \in Perms(arg_lights) \ {arg_lights} : Exact(q) => Calc(q) = result)

\* Two different lights in reach, summed without rounding in both orders,
\* one of them changing the output.
C6_Witness ==
    /\ pc = "done"
    /\ Len(arg_lights) = 2
    /\ arg_lights[1] # arg_lights[2]
    /\ Reaches(1) /\ Reaches(2)
    /\ \A q \in Perms(arg_lights) : Exact(q)
    /\ result # Calc(<<arg_lights[1]>>)
    /\ result # Calc(<<arg_lights[2]>>)

\* Other (time, flicker_speed) pairs to call with.
AltCallsIn == {<<Zero, NaN>>, <<Round(7, -1), FromInt(7)>>, <<PInf, Zero>>}

WithSpeed(ls, speed) ==
    [i \in 1 .. Len(ls) |->
        <<ls[i][1], ls[i][2], [ls[i][3] EXCEPT !.flicker_speed = speed]>>]

\* C7: when every light has flicker_amount <= 0, the output is the same
\* for every time and every flicker_speed, and each light's effective
\* intensity is its stored intensity.
C7_NoFlickerTimeIndependent ==
    pc = "done" =>
        ((\A i \in 1 .. Len(arg_lights) : FLe(arg_lights[i][3].flicker_amount, Zero))
            => /\ \A c \in AltCallsIn :
                     calculate_light_contribution(arg_x, arg_y, WithSpeed(arg_lights, c[2]),
                                                  arg_ambient, c[1]) = result
               /\ \A i \in 1 .. Len(arg_lights) :
                     EffectiveIntensity(arg_lights[i][3], arg_time) = arg_lights[i][3].intensity)

\* Two lights in reach with flicker off, one by a zero and one by a
\* negative flicker_amount, changing a channel below the clamp.
C7_Witness ==
    /\ pc = "done"
    /\ Len(arg_lights) = 2
    /\ \A i \in 1 .. 2 : FLe(arg_lights[i][3].flicker_amount, Zero) /\ Reaches(i)
    /\ arg_lights[1][3].flicker_amount = Zero
    /\ FLt(arg_lights[2][3].flicker_amount, Zero)
    /\ FLt(result[1], One)
    /\ result[1] # arg_ambient[1]

UnitAmbient == \A k \in 1 .. 3 : FLe(Zero, arg_ambient[k]) /\ FLe(arg_ambient[k], One)

BrighteningLights ==
    \A i \in 1 .. Len(arg_lights) :
        /\ FLe(Zero, arg_lights[i][3].intensity)
        /\ FLe(arg_lights[i][3].flicker_amount, One)

Brightened ==
    \A k \in 1 .. 3 :
        /\ FLe(Zero, result[k])
        /\ FLe(result[k], One)
        /\ FLe(arg_ambient[k], result[k])

Darkened ==
    \E k \in 1 .. 3 : FLt(result[k], arg_ambient[k]) \/ FLt(result[k], Zero)

DarkeningInput ==
    \/ \E i \in 1 .. Len(arg_lights) : FLt(arg_lights[i][3].intensity, Zero)
    \/ \E i \in 1 .. Len(arg_lights) : FGt(arg_lights[i][3].flicker_amount, One)
    \/ \E k \in 1 .. 3 : FLt(arg_ambient[k], Zero)

\* C10 as claimed: with every ambient channel in [0, 1], every intensity
\* >= 0 and every flicker_amount <= 1, each returned channel is in [0, 1]
\* and >= its ambient channel; a returned channel below its ambient channel
\* or below 0 needs a negative intensity, a flicker_amount above 1 or an
\* ambient channel below 0.
C10_OnlyBrightens ==
    pc = "done" =>
        /\ (UnitAmbient /\ BrighteningLights) => Brightened
        /\ Darkened => DarkeningInput

\* C10 as amended: the same, with an ambient channel above 1.0 as one more
\* way for a returned channel to be below its ambient channel.
C10_OnlyBrightensUnitAmbient ==
    pc = "done" =>
        /\ (UnitAmbient /\ BrighteningLights) => Brightened
        /\ Darkened => (DarkeningInput \/ \E k \in 1 .. 3 : FGt(arg_ambient[k], One))

\* A flickering light in reach brightens a channel of an ambient in [0, 1]
\* to a value below 1.0.
C10_Witness ==
    /\ pc = "done"
    /\ UnitAmbient /\ BrighteningLights
    /\ \E i \in 1 .. Len(arg_lights) :
          Reaches(i) /\ FGt(arg_lights[i][3].flicker_amount, Zero)
    /\ \E k \in 1 .. 3 : FLt(arg_ambient[k], result[k]) /\ FLt(result[k], One)

=============================================================================
